---- MODULE Spec2Model ----
(***************************************************************************)
(* Lip-sync pipeline of EmoteWidget (src/Emote_Widget.py) and the binding   *)
(* resolver (src/BoundParams.py).                                          *)
(*                                                                         *)
(* Execution contexts:                                                     *)
(*   - the GUI (main) thread: the public methods start_lip_sync,           *)
(*     start_lip_sync_from_file, stop_lip_sync and the queued Qt slots     *)
(*     _on_mouth_ratio_update and _reset_mouth_on_sync_finish;             *)
(*   - one QThread per StreamLipSyncThread object (run);                   *)
(*   - one daemon thread per stream_audio_file call (thread_target);       *)
(*   - the caller's own producer pushing blocks into a queue it handed     *)
(*     to start_lip_sync.                                                  *)
(*                                                                         *)
(* Floats are fixed point: the integer n stands for n / Scale.  NaN is a   *)
(* distinguished value with IEEE / Python comparison semantics.  An audio  *)
(* block is represented by the value np.sqrt(np.mean(block**2)) yields for *)
(* it.                                                                     *)
(***************************************************************************)
EXTENDS Integers, Sequences, FiniteSets, TLC

\* ----------------------------------------------------------------- bounds
\* Sessions (engine threads, file producers) one behaviour may create.
MaxSessions == 2
\* Blocks in an audio file.
MaxBlocks == 1
\* Items the caller's own producer pushes into the queue it owns: in the runs
\* with one session, and in the runs with several.
MaxExtPuts == 2
MaxFewPuts == 1
\* Blocks fed to the envelope in the runs that vary the levels.
MaxEnvPuts == 3
\* Signal deliveries waiting for the GUI thread's event loop.
MaxEvents == 1
\* Entries of a manifest, and resolutions of one manifest.
MaxEntries == 3
MaxResolves == 2

\* controller commands the caller issues
MaxCommands == 3

\* player_ready signals the page delivers
MaxReady == 2

\* edits the binding panel delivers
MaxEdits == 2

\* -------------------------------------------------------- fixed-point floats
Scale == 1000
\* np.exp(-1 / (0.8 * 30)) = 0.95919 and np.exp(-1 / (0.15 * 30)) = 0.80074
MeanSmooth == 959
PeakSmooth == 801
\* DEFAULT_CONFIG['lip_sync']['activation_ratio'] = 0.3
ActivationRatio == 300
\* the silence guard 0.001 of run()
RangeGuard == 1
\* what np.mean gives for an empty slice, and everything computed from it
NaN == -999999

IsNaN(x) == x = NaN

\* a * (c / Scale) for a coefficient c
FMulC(a, c) == IF IsNaN(a) THEN NaN ELSE (a * c) \div Scale

FAdd(a, b) == IF IsNaN(a) \/ IsNaN(b) THEN NaN ELSE a + b

FSub(a, b) == IF IsNaN(a) \/ IsNaN(b) THEN NaN ELSE a - b

\* a > b; every comparison with NaN is False
FGt(a, b) == ~IsNaN(a) /\ ~IsNaN(b) /\ a > b

\* Python's max(a, b): b replaces a only if b > a
PyMax(a, b) == IF FGt(b, a) THEN b ELSE a

\* Python's min(a, b): b replaces a only if b < a
PyMin(a, b) == IF FGt(a, b) THEN b ELSE a

\* ------------------------------------------------------------ queue items
\* k = "frame": a sample block whose RMS is v;  k = "empty": a zero-length
\* array;  k = "bad": an object on which **2 raises;  k = "none": the None
\* sentinel.  For a sentinel v records who pushed it (0: a producer, t > 0:
\* stop() called on engine t); run() does not read it.
Frame(v) == [k |-> "frame", v |-> v]
EmptyBlock == [k |-> "empty", v |-> 0]
BadBlock == [k |-> "bad", v |-> 0]
None(by) == [k |-> "none", v |-> by]

\* RMS levels of well-formed blocks: silence, a barely audible block (0.002)
\* and speech levels (0.3, 1.0)
Quiet == 0
Soft == 2
Levels == {Quiet, 300, Scale}

\* ------------------------------------------------------------- audio files
\* "ok": opens and reads to the end; "missing": sf.SoundFile raises;
\* "badread": opens, the read of its last block raises.
Files == {"ok", "missing", "badread"}

\* the RMS of block i (1-based) of a file: the files are silent recordings
BlockLevel(i) == Quiet

CanOpen(f) == f # "missing"

ReadRaises(f, pos) == f = "badread" /\ pos = MaxBlocks - 1

VARIABLES
    variable_map,      \* EmoteWidget.variable_map: the whole table, or in the
                       \* lip-sync runs its MOUTH_OPEN entry (FindParamByUsage)
    mainPc,            \* position of the GUI thread
    mainStack,         \* where the GUI thread continues after the current call
    mainArg,           \* arguments / locals of the current call
    lip_sync_thread,   \* EmoteWidget._lip_sync_thread: 0 is None
    stop_event,        \* EmoteWidget._streamer_stop_event
    threads,           \* the StreamLipSyncThread objects, in creation order
    producers,         \* the thread_target threads, in creation order
    queues,            \* the queue.Queue objects; queue 1 is the caller's own
    events,            \* queued signal deliveries to the GUI thread
    closes,            \* sessions whose closing set_variable was issued
    lastCmd,           \* the last set_variable the lip-sync path issued
    extPuts,           \* items the caller's producer has pushed
    config,            \* EmoteWidget.config['lip_sync']
    mouth_param_info,  \* EmoteWidget.mouth_param_info
    manifest,          \* the decompiled model description handed to the resolver
    resolved,          \* what the resolutions of the manifest returned, in order
    instance_controller,  \* EmoteWidget._instance_controller: FALSE is None
    command_queue,     \* EmoteWidget._command_queue
    executed,          \* the calls made on the controller's methods, in order
    issued,            \* the controller commands the caller issued, in order
    player_ready,      \* emissions of EmoteWidget.player_ready
    model_files,       \* the model files that exist under web_frontend/models
    json_files,        \* the manifest file next to each model
    decompiler,        \* what running tools/PsbDecompile.exe comes to
    cache_files,       \* the files under .emote_cache
    current_model_filename,  \* EmoteWidget.current_model_filename
    last,              \* the last call into BoundParams and what it did
    plugin_flow,       \* where the loading of the plugins is
    plugins_are_ready, \* EmoteWidget._plugins_are_ready
    player_is_ready,   \* EmoteWidget._player_is_ready
    is_splash_dismissed,  \* EmoteWidget._is_splash_dismissed
    splash_dismissals, \* the SplashScreenAPI.dismiss() commands sent to the page
    param_widgets,     \* Tester: the ParamControlWidgets of the binding panel
    edits              \* the edits the binding panel has delivered, in order

\* the state of BoundParams.py
resolverVars == <<manifest, resolved>>

\* the start-up of the widget: plugins, player, splash screen
splashVars ==
    <<plugin_flow, plugins_are_ready, player_is_ready, is_splash_dismissed,
      splash_dismissals>>

\* the binding panel of the tester
editorVars == <<param_widgets, edits>>

\* the command buffer of the widget
controllerVars == <<instance_controller, command_queue, executed, issued, player_ready>>

\* the files BoundParams.py works on, and the model the widget has loaded
cacheVars == <<model_files, json_files, decompiler, cache_files,
               current_model_filename, last>>

vars == <<variable_map, mainPc, mainStack, mainArg, lip_sync_thread, stop_event,
          threads, producers, queues, events, closes, lastCmd, extPuts,
          config, mouth_param_info, resolverVars, controllerVars, cacheVars,
          splashVars, editorVars>>

ExtQueue == 1

\* ------------------------------------------------------- strings and names
\* Strings are tuples of characters, so that a pattern is matched character
\* by character.  A JSON value is a string or, standing for every other
\* type, a number.
Str(s) == [t |-> "str", s |-> s]

Number == [t |-> "num", s |-> <<>>]

\* 'name': None
NullName == [t |-> "none", s |-> <<>>]

Newline == "\n"

\* raw names of a model: face_talk, face_talk followed by a line feed,
\* fade_a, fade_la, face_mouth_sp, and a name no pattern knows
FaceTalk == <<"f", "a", "c", "e", "_", "t", "a", "l", "k">>

FaceTalkNl == FaceTalk \o <<Newline>>

FadeA == <<"f", "a", "d", "e", "_", "a">>

FadeLa == <<"f", "a", "d", "e", "_", "l", "a">>

FaceMouth == <<"f", "a", "c", "e", "_", "m", "o", "u", "t", "h">>

FaceMouthSp == FaceMouth \o <<"_", "s", "p">>

HeadLR == <<"h", "e", "a", "d", "_", "L", "R">>

ArmType == <<"a", "r", "m">>

NoCmd == [kind |-> "none", by |-> 0, name |-> NullName, v |-> 0]

NoArg == [file |-> "ok", q |-> 0, target |-> 0]

\* ------------------------------------------------------------ configuration
\* config['lip_sync'] as __init__ leaves it: DEFAULT_CONFIG merged with the
\* caller's config_override.  Exponents are limited to 1/2, 1 and 2, which
\* integer arithmetic computes exactly (the default 0.35 lies below them).
ActivationRatios == {0, ActivationRatio, Scale}

Curves == {500, Scale, 2000}

\* DEFAULT_CONFIG['lip_sync']['mouth_ratio_oversaturation'] = 1.1
Oversaturation == 1100

Oversaturations == {Scale, Oversaturation, 2000}

Configs ==
    [activation_ratio : ActivationRatios,
     mouth_ratio_curve : Curves,
     mouth_ratio_oversaturation : Oversaturations]

\* the configuration of the runs that do not vary it
BaseConfig ==
    [activation_ratio |-> ActivationRatio,
     mouth_ratio_curve |-> 500,
     mouth_ratio_oversaturation |-> Oversaturation]

\* 'range' of the entries of get_default_map that a mouth can be bound to,
\* and of an auto-matched entry: (0.0, 1.0), (-1.0, 1.0), (-30.0, 30.0)
DefaultMouthRange == <<0, Scale>>

MouthRanges == {DefaultMouthRange, <<-Scale, Scale>>, <<-30 * Scale, 30 * Scale>>}

\* mouth_param_info before the first start_lip_sync (the attribute is unset)
NoParam == [name |-> NullName, range |-> <<0, 0>>]

\* the binding tables of the runs: with or without an entry tagged
\* MOUTH_OPEN, which is bound to face_talk and whose range is one of rs
Tables(rs) == [mouth : BOOLEAN, name : {Str(FaceTalk)}, range : rs]

\* ------------------------------------------------ the files of BoundParams
\* a model name is the path handed to load_model, as its components
ModelNames == {<<"chara.psb">>, <<"sub", "chara.psb">>}

\* current_model_filename = None
NoModel == <<>>

CACHE_DIR == ".emote_cache"

\* no such file
NoFile == [text |-> "absent", doc |-> <<>>]

\* the cache files the program can name: one per model name
CachePaths == {<<CACHE_DIR>> \o n : n \in ModelNames}

\* no Python value
NoValue == [py |-> "none", v |-> <<>>]

\* The last call into BoundParams: the function, the model name and the
\* cache file it is about, whether the model file existed, what the cache
\* file and the manifest file held before the call, the table handed in
\* (arg), the table stored under the same cache file by the call before
\* (stored), what the call did (did) and what it returned (outcome).
NoCall ==
    [call |-> "none", name |-> NoModel, key |-> <<>>, exists |-> FALSE,
     found |-> NoFile, manifest |-> NoFile, arg |-> NoValue,
     stored |-> NoValue, did |-> {}, outcome |-> NoValue]

\* the player is ready: commands go to the controller
InitControllerReady ==
    /\ instance_controller = TRUE
    /\ command_queue = <<>>
    /\ executed = <<>>
    /\ issued = <<>>
    /\ player_ready = 1
    /\ plugin_flow = "done"
    /\ plugins_are_ready = TRUE
    /\ player_is_ready = TRUE
    /\ is_splash_dismissed = TRUE
    /\ splash_dismissals = 1

\* no model file is looked at, the cache directory is empty
InitCacheIdle ==
    /\ model_files = {}
    /\ json_files = [n \in ModelNames |-> NoFile]
    /\ decompiler = "missing"
    /\ cache_files = [c \in CachePaths |-> NoFile]
    /\ current_model_filename = NoModel
    /\ last = NoCall
    /\ param_widgets = <<>>
    /\ edits = <<>>

\* lines 488-520: no lip-sync session, nothing queued
InitLipSync ==
    /\ mouth_param_info = NoParam
    /\ mainPc = "idle"
    /\ mainStack = <<>>
    /\ mainArg = NoArg
    /\ lip_sync_thread = 0
    /\ stop_event = FALSE
    /\ threads = <<>>
    /\ producers = <<>>
    /\ queues = <<(<<>>)>>
    /\ events = <<>>
    /\ closes = {}
    /\ lastCmd = NoCmd
    /\ extPuts = 0

\* EmoteWidget.__init__ with configuration cfg, followed by the load of a
\* model whose table is one of Tables(rs): no engine, the stop event clear,
\* nothing queued
InitWidget(cfgs, rs) ==
    /\ config \in cfgs
    /\ variable_map \in Tables(rs)
    /\ InitLipSync
    /\ InitControllerReady
    /\ InitCacheIdle

\* no manifest has been handed to the resolver
NoManifest == <<>>

InitResolverIdle ==
    /\ manifest = NoManifest
    /\ resolved = <<>>

Init ==
    /\ InitWidget({BaseConfig}, {DefaultMouthRange})
    /\ InitResolverIdle

\* --------------------------------------------------------------- helpers
IsRunning(t) == threads[t].pc # "finished"

\* a queue that hands out the newest item first
Put_Front(q, item) == [queues EXCEPT ![q] = <<item>> \o @]

Put(q, item) == [queues EXCEPT ![q] = Append(@, item)]

Pop(q) == [queues EXCEPT ![q] = Tail(@)]

\* return from the current call of the GUI thread; the locals of a call
\* from outside end with it
Return ==
    /\ mainPc' = Head(mainStack)
    /\ mainStack' = Tail(mainStack)
    /\ mainArg' = IF Head(mainStack) = "idle" THEN NoArg ELSE mainArg

\* ------------------------------------------- StreamLipSyncThread: numerics
\* np.sqrt(np.mean(audio_chunk**2)): nan for a zero-length array
Rms(item) == IF item.k = "empty" THEN NaN ELSE item.v

UpdateMean(mean, cur) ==
    FAdd(FMulC(mean, MeanSmooth), FMulC(cur, Scale - MeanSmooth))

\* a ceiling that follows the level as smoothly as the floor does
UpdatePeak_Smoothed(peak, cur) ==
    FAdd(FMulC(peak, PeakSmooth), FMulC(cur, Scale - PeakSmooth))

UpdatePeak(peak, cur) == PyMax(cur, FMulC(peak, PeakSmooth))

DecayPeak(peak) == FMulC(peak, PeakSmooth)

DynamicRange(mean, peak) == FSub(peak, mean)

\* the threshold with the default ratio, whatever is configured
ActivationThreshold_DefaultRatio(mean, peak, ar) ==
    FAdd(mean, FMulC(DynamicRange(mean, peak), ActivationRatio))

ActivationThreshold(mean, peak, ar) ==
    FAdd(mean, FMulC(DynamicRange(mean, peak), ar))

\* max(0.0, min(r, 1.0))
Clamp01(r) == PyMax(0, PyMin(r, Scale))

\* the position in (threshold ~ peak) of every level, below the threshold
\* too, and not clamped
MouthOpenRatio_NoThreshold(cur, mean, peak, ar) ==
    LET thr == ActivationThreshold(mean, peak, ar)
        eff == FSub(peak, thr)
    IN  IF FGt(DynamicRange(mean, peak), RangeGuard) /\ FGt(eff, 0)
        THEN ((cur - thr) * Scale) \div eff
        ELSE 0

\* the distance above the threshold in units of the guard, not clamped
MouthOpenRatio_OverGuard(cur, mean, peak, ar) ==
    LET thr == ActivationThreshold(mean, peak, ar)
    IN  IF FGt(cur, thr) /\ FGt(DynamicRange(mean, peak), RangeGuard)
        THEN ((cur - thr) * Scale) \div RangeGuard
        ELSE 0

\* mouth_open_ratio of run() from the envelope after its update; the 1e-6
\* added to effective_range is below the resolution 1 / Scale
MouthOpenRatio(cur, mean, peak, ar) ==
    LET thr == ActivationThreshold(mean, peak, ar)
        eff == FSub(peak, thr)
    IN  IF FGt(cur, thr) /\ FGt(DynamicRange(mean, peak), RangeGuard)
        THEN Clamp01(((cur - thr) * Scale) \div eff)
        ELSE 0

\* the payload of debug_data_updated
Debug(rms, mean, peak, threshold) ==
    [rms |-> rms, mean |-> mean, peak |-> peak, threshold |-> threshold]

\* ----------------------------------------------- StreamLipSyncThread.__init__
NewThread(q) ==
    [q |-> q, is_running |-> FALSE, pc |-> "start",
     mean_rms |-> 0, peak_rms |-> 0, ended |-> "no", errors |-> 0,
     activation_ratio |-> config.activation_ratio, current_rms |-> 0,
     debug |-> Debug(0, 0, 0, 0)]

\* ------------------------------------------------ StreamLipSyncThread.run
RatioEvent(t, r) == [sig |-> "ratio", t |-> t, v |-> r]

FinishedEvent(t) == [sig |-> "finished", t |-> t, v |-> 0]

\* run() returns: isRunning() turns false and QThread.finished is queued
Finish(t, how) ==
    /\ Len(events) < MaxEvents
    /\ threads' = [threads EXCEPT ![t].pc = "finished", ![t].ended = how]
    /\ events' = Append(events, FinishedEvent(t))

\* self.is_running = True
EngineBegin(t) ==
    /\ t \in DOMAIN threads
    /\ threads[t].pc = "start"
    /\ threads' = [threads EXCEPT ![t].is_running = TRUE, ![t].pc = "loop"]
    /\ UNCHANGED <<controllerVars, cacheVars, resolverVars, splashVars, editorVars, config, mouth_param_info, variable_map, mainPc, mainStack, mainArg, lip_sync_thread,
                   stop_event, producers, queues, events, closes, lastCmd, extPuts>>

\* while self.is_running:
EngineTest(t) ==
    /\ t \in DOMAIN threads
    /\ threads[t].pc = "loop"
    /\ IF threads[t].is_running
       THEN /\ threads' = [threads EXCEPT ![t].pc = "get"]
            /\ UNCHANGED events
       ELSE Finish(t, "flag")
    /\ UNCHANGED <<controllerVars, cacheVars, resolverVars, splashVars, editorVars, config, mouth_param_info, variable_map, mainPc, mainStack, mainArg, lip_sync_thread,
                   stop_event, producers, queues, closes, lastCmd, extPuts>>

\* if audio_chunk is None: break
OnSentinel(t, item) == Finish(t, IF item.v = 0 THEN "eof" ELSE "stop")

\* lines 246-283: RMS, envelope update, activation, emit
OnChunk(t, item) ==
    LET cur == Rms(item)
        mean == UpdateMean(threads[t].mean_rms, cur)
        peak == UpdatePeak(threads[t].peak_rms, cur)
    IN  /\ Len(events) < MaxEvents
        /\ threads' = [threads EXCEPT
              ![t].current_rms = cur,
              ![t].mean_rms = mean,
              ![t].peak_rms = peak,
              ![t].debug = Debug(cur, mean, peak,
                                 ActivationThreshold(mean, peak, threads[t].activation_ratio)),
              ![t].pc = "loop"]
        /\ events' = Append(events,
              RatioEvent(t, MouthOpenRatio(cur, mean, peak, threads[t].activation_ratio)))

\* no handler around the block: the exception leaves run()
OnChunkException_Fatal(t) == Finish(t, "crash")

\* except Exception: logged (errors counts the log entries), the loop goes on
OnChunkException(t) ==
    /\ threads' = [threads EXCEPT ![t].pc = "loop", ![t].errors = @ + 1]
    /\ UNCHANGED events

\* audio_chunk = self.audio_queue.get(timeout=1) returns an item
EngineGet(t) ==
    /\ t \in DOMAIN threads
    /\ threads[t].pc = "get"
    /\ queues[threads[t].q] # <<>>
    /\ LET item == Head(queues[threads[t].q])
       IN  /\ queues' = Pop(threads[t].q)
           /\ CASE item.k = "none" -> OnSentinel(t, item)
                [] item.k = "bad" -> OnChunkException(t)
                [] OTHER -> OnChunk(t, item)
    /\ UNCHANGED <<controllerVars, cacheVars, resolverVars, splashVars, editorVars, config, mouth_param_info, variable_map, mainPc, mainStack, mainArg, lip_sync_thread,
                   stop_event, producers, closes, lastCmd, extPuts>>

\* except queue.Empty: the peak decays, ratio 0.0 is emitted
\* a timeout that lets the floor decay with the ceiling
OnTimeout_DecayBoth(t) ==
    /\ Len(events) < MaxEvents
    /\ threads' = [threads EXCEPT
          ![t].peak_rms = DecayPeak(@),
          ![t].mean_rms = FMulC(@, MeanSmooth),
          ![t].debug = Debug(0, FMulC(threads[t].mean_rms, MeanSmooth),
                             DecayPeak(threads[t].peak_rms),
                             FMulC(threads[t].mean_rms, MeanSmooth)),
          ![t].pc = "loop"]
    /\ events' = Append(events, RatioEvent(t, 0))

OnTimeout(t) ==
    /\ Len(events) < MaxEvents
    /\ threads' = [threads EXCEPT
          ![t].peak_rms = DecayPeak(@),
          ![t].debug = Debug(0, threads[t].mean_rms, DecayPeak(threads[t].peak_rms),
                             threads[t].mean_rms),
          ![t].pc = "loop"]
    /\ events' = Append(events, RatioEvent(t, 0))

EngineTimeout(t) ==
    /\ t \in DOMAIN threads
    /\ threads[t].pc = "get"
    /\ queues[threads[t].q] = <<>>
    /\ OnTimeout(t)
    /\ UNCHANGED <<controllerVars, cacheVars, resolverVars, splashVars, editorVars, config, mouth_param_info, variable_map, mainPc, mainStack, mainArg, lip_sync_thread,
                   stop_event, producers, queues, closes, lastCmd, extPuts>>

Engine(t) == EngineBegin(t) \/ EngineTest(t) \/ EngineGet(t) \/ EngineTimeout(t)

\* ------------------------------- EmoteWidget.stream_audio_file.thread_target
NewProducer(q, f) == [q |-> q, file |-> f, pc |-> "open", pos |-> 0, emitted |-> <<>>]

\* with sf.SoundFile(filepath, 'r') ... with sd.OutputStream(...)
ProducerOpen(p) ==
    /\ p \in DOMAIN producers
    /\ producers[p].pc = "open"
    /\ producers' = [producers EXCEPT
                        ![p].pc = IF CanOpen(producers[p].file) THEN "check" ELSE "finally"]
    /\ UNCHANGED <<controllerVars, cacheVars, resolverVars, splashVars, editorVars, config, mouth_param_info, variable_map, mainPc, mainStack, mainArg, lip_sync_thread,
                   stop_event, threads, queues, events, closes, lastCmd, extPuts>>

\* while not self._streamer_stop_event.is_set(): read a block; stop at the
\* end of the file; an exception of the read leaves through except/finally
ProducerCheck(p) ==
    /\ p \in DOMAIN producers
    /\ producers[p].pc = "check"
    /\ producers' = [producers EXCEPT
                        ![p].pc = IF \/ stop_event
                                     \/ producers[p].pos = MaxBlocks
                                     \/ ReadRaises(producers[p].file, producers[p].pos)
                                  THEN "finally" ELSE "write"]
    /\ UNCHANGED <<controllerVars, cacheVars, resolverVars, splashVars, editorVars, config, mouth_param_info, variable_map, mainPc, mainStack, mainArg, lip_sync_thread,
                   stop_event, threads, queues, events, closes, lastCmd, extPuts>>

\* stream.write(audio_chunk) (blocks while the block plays); audio_queue.put
ProducerPut(p) ==
    /\ p \in DOMAIN producers
    /\ producers[p].pc = "write"
    /\ LET item == Frame(BlockLevel(producers[p].pos + 1))
       IN  /\ queues' = Put(producers[p].q, item)
           /\ producers' = [producers EXCEPT ![p].pc = "check",
                                             ![p].pos = @ + 1,
                                             ![p].emitted = Append(@, item)]
    /\ UNCHANGED <<controllerVars, cacheVars, resolverVars, splashVars, editorVars, config, mouth_param_info, variable_map, mainPc, mainStack, mainArg, lip_sync_thread,
                   stop_event, threads, events, closes, lastCmd, extPuts>>

\* the sentinel pushed at the end of the try block only: none after an error
ProducerFinally_NotOnError(p) ==
    /\ p \in DOMAIN producers
    /\ producers[p].pc = "finally"
    /\ IF producers[p].file = "ok"
       THEN /\ queues' = Put(producers[p].q, None(0))
            /\ producers' = [producers EXCEPT ![p].pc = "done",
                                              ![p].emitted = Append(@, None(0))]
       ELSE /\ producers' = [producers EXCEPT ![p].pc = "done"]
            /\ UNCHANGED queues
    /\ UNCHANGED <<controllerVars, cacheVars, resolverVars, splashVars, editorVars, config, mouth_param_info, variable_map, mainPc, mainStack, mainArg, lip_sync_thread,
                   stop_event, threads, events, closes, lastCmd, extPuts>>

\* finally: audio_queue.put(None)
ProducerFinally(p) ==
    /\ p \in DOMAIN producers
    /\ producers[p].pc = "finally"
    /\ queues' = Put(producers[p].q, None(0))
    /\ producers' = [producers EXCEPT ![p].pc = "done",
                                      ![p].emitted = Append(@, None(0))]
    /\ UNCHANGED <<controllerVars, cacheVars, resolverVars, splashVars, editorVars, config, mouth_param_info, variable_map, mainPc, mainStack, mainArg, lip_sync_thread,
                   stop_event, threads, events, closes, lastCmd, extPuts>>

Producer(p) == ProducerOpen(p) \/ ProducerCheck(p) \/ ProducerPut(p) \/ ProducerFinally(p)

\* ------------------------------------- the caller's producer on its own queue
\* what a caller may push: blocks at speech levels, a zero-length block, an
\* object that is no array, and None to end the session
ExtItems == {Frame(v) : v \in Levels} \cup {EmptyBlock, BadBlock, None(0)}

\* the items of the runs with several sessions
FewItems == {Frame(Soft), None(0)}

ExternalPut(item, max) ==
    /\ extPuts < max
    /\ extPuts' = extPuts + 1
    /\ queues' = Put(ExtQueue, item)
    /\ UNCHANGED <<controllerVars, cacheVars, resolverVars, splashVars, editorVars, config, mouth_param_info, variable_map, mainPc, mainStack, mainArg, lip_sync_thread,
                   stop_event, threads, producers, events, closes, lastCmd>>

\* --------------------------------------------------- EmoteWidget.stop_lip_sync
\* a call from outside (the stop button, closeEvent)
CallStopLipSync ==
    /\ mainPc = "idle"
    /\ mainPc' = "sls_set"
    /\ mainStack' = <<"idle">>
    /\ UNCHANGED <<controllerVars, cacheVars, resolverVars, splashVars, editorVars, config, mouth_param_info, variable_map, mainArg, lip_sync_thread, stop_event, threads,
                   producers, queues, events, closes, lastCmd, extPuts>>

\* self._streamer_stop_event.set()
StopSetEvent ==
    /\ mainPc = "sls_set"
    /\ stop_event' = TRUE
    /\ mainPc' = "sls_check"
    /\ UNCHANGED <<controllerVars, cacheVars, resolverVars, splashVars, editorVars, config, mouth_param_info, variable_map, mainStack, mainArg, lip_sync_thread, threads,
                   producers, queues, events, closes, lastCmd, extPuts>>

\* StreamLipSyncThread.stop, first line: self.is_running = False
StopClearRunning(t) ==
    /\ threads' = [threads EXCEPT ![t].is_running = FALSE]
    /\ mainArg' = [mainArg EXCEPT !.target = t]
    /\ mainPc' = "stop_drain"
    /\ UNCHANGED mainStack

\* if self._lip_sync_thread and self._lip_sync_thread.isRunning(): stop()
StopCheck ==
    /\ mainPc = "sls_check"
    /\ IF lip_sync_thread # 0 /\ IsRunning(lip_sync_thread)
       THEN StopClearRunning(lip_sync_thread)
       ELSE Return /\ UNCHANGED threads
    /\ UNCHANGED <<controllerVars, cacheVars, resolverVars, splashVars, editorVars, config, mouth_param_info, variable_map, lip_sync_thread, stop_event, producers, queues,
                   events, closes, lastCmd, extPuts>>

\* stop(): while not self.audio_queue.empty(): get_nowait()
StopDrain ==
    /\ mainPc = "stop_drain"
    /\ LET q == threads[mainArg.target].q
       IN  IF queues[q] # <<>>
           THEN queues' = Pop(q) /\ UNCHANGED mainPc
           ELSE mainPc' = "stop_put" /\ UNCHANGED queues
    /\ UNCHANGED <<controllerVars, cacheVars, resolverVars, splashVars, editorVars, config, mouth_param_info, variable_map, mainStack, mainArg, lip_sync_thread, stop_event,
                   threads, producers, events, closes, lastCmd, extPuts>>

\* a stop() that only clears the flag and drains
StopPutSentinel_Skip(t) == UNCHANGED queues

\* stop(), last line: self.audio_queue.put(None)
StopPutSentinel(t) == queues' = Put(threads[t].q, None(t))

StopPut ==
    /\ mainPc = "stop_put"
    /\ StopPutSentinel(mainArg.target)
    /\ Return
    /\ UNCHANGED <<controllerVars, cacheVars, resolverVars, splashVars, editorVars, config, mouth_param_info, variable_map, lip_sync_thread, stop_event, threads,
                   producers, events, closes, lastCmd, extPuts>>

\* -------------------------------------------------- EmoteWidget.start_lip_sync
\* a call from outside with the caller's queue
CallStartLipSync ==
    /\ mainPc = "idle"
    /\ Len(threads) < MaxSessions
    /\ mainPc' = "sl_check"
    /\ mainStack' = <<"idle">>
    /\ mainArg' = [mainArg EXCEPT !.q = ExtQueue]
    /\ UNCHANGED <<controllerVars, cacheVars, resolverVars, splashVars, editorVars, config, mouth_param_info, variable_map, lip_sync_thread, stop_event, threads, producers,
                   queues, events, closes, lastCmd, extPuts>>

\* if self._lip_sync_thread and self._lip_sync_thread.isRunning():
\*     self.stop_lip_sync()
StartCheck ==
    /\ mainPc = "sl_check"
    /\ IF lip_sync_thread # 0 /\ IsRunning(lip_sync_thread)
       THEN mainPc' = "sls_set" /\ mainStack' = <<"sl_create">> \o mainStack
       ELSE mainPc' = "sl_create" /\ UNCHANGED mainStack
    /\ UNCHANGED <<controllerVars, cacheVars, resolverVars, splashVars, editorVars, config, mouth_param_info, variable_map, mainArg, lip_sync_thread, stop_event, threads,
                   producers, queues, events, closes, lastCmd, extPuts>>

\* the engine object reused: the new session inherits the envelope
StartEngine_KeepEnvelope(q) ==
    /\ threads' = Append(threads,
          IF threads = <<>> THEN NewThread(q)
          ELSE [NewThread(q) EXCEPT !.mean_rms = threads[Len(threads)].mean_rms,
                                    !.peak_rms = threads[Len(threads)].peak_rms])
    /\ lip_sync_thread' = Len(threads) + 1

\* lines 795-806: a new StreamLipSyncThread on the queue, connected, started
StartEngine(q) ==
    /\ threads' = Append(threads, NewThread(q))
    /\ lip_sync_thread' = Len(threads) + 1

\* lines 788-806: no MOUTH_OPEN entry: log and return; else start the engine
StartCreate ==
    /\ mainPc = "sl_create"
    /\ IF variable_map.mouth
       THEN /\ mouth_param_info' = [name |-> variable_map.name, range |-> variable_map.range]
            /\ StartEngine(mainArg.q)
       ELSE UNCHANGED <<mouth_param_info, threads, lip_sync_thread>>
    /\ Return
    /\ UNCHANGED <<controllerVars, cacheVars, resolverVars, splashVars, editorVars, config, variable_map, stop_event, producers, queues,
                   events, closes, lastCmd, extPuts>>

\* ---------------------------------------- EmoteWidget.start_lip_sync_from_file
\* a call from outside; line 815: self.stop_lip_sync()
CallStartFromFile(f) ==
    /\ mainPc = "idle"
    /\ Len(threads) < MaxSessions
    /\ Len(producers) < MaxSessions
    /\ mainPc' = "sls_set"
    /\ mainStack' = <<"slf_clear", "idle">>
    /\ mainArg' = [mainArg EXCEPT !.file = f]
    /\ UNCHANGED <<controllerVars, cacheVars, resolverVars, splashVars, editorVars, config, mouth_param_info, variable_map, lip_sync_thread, stop_event, threads, producers,
                   queues, events, closes, lastCmd, extPuts>>

\* lines 816-818: clear the event, a fresh queue, self.start_lip_sync(queue)
FileClearEvent ==
    /\ mainPc = "slf_clear"
    /\ stop_event' = FALSE
    /\ queues' = Append(queues, <<>>)
    /\ mainArg' = [mainArg EXCEPT !.q = Len(queues) + 1]
    /\ mainPc' = "sl_check"
    /\ mainStack' = <<"slf_stream">> \o mainStack
    /\ UNCHANGED <<controllerVars, cacheVars, resolverVars, splashVars, editorVars, config, mouth_param_info, variable_map, lip_sync_thread, threads, producers, events,
                   closes, lastCmd, extPuts>>

\* line 820: self.stream_audio_file(filepath, queue) starts the producer
FileStream ==
    /\ mainPc = "slf_stream"
    /\ producers' = Append(producers, NewProducer(mainArg.q, mainArg.file))
    /\ Return
    /\ UNCHANGED <<controllerVars, cacheVars, resolverVars, splashVars, editorVars, config, mouth_param_info, variable_map, lip_sync_thread, stop_event, threads,
                   queues, events, closes, lastCmd, extPuts>>

\* ------------------------------------------------------- queued slots (GUI)
RECURSIVE Bisect(_, _, _)
\* the largest y in lo .. hi with y * y <= n, given lo * lo <= n
Bisect(n, lo, hi) ==
    IF lo = hi THEN lo
    ELSE LET mid == (lo + hi + 1) \div 2
         IN  IF mid * mid <= n THEN Bisect(n, mid, hi) ELSE Bisect(n, lo, mid - 1)

\* open_ratio ** curve for a ratio in [0, 1]
Pow(r, curve) ==
    CASE curve = 500 -> Bisect(r * Scale, 0, Scale)
      [] curve = Scale -> r
      [] curve = 2000 -> (r * r) \div Scale

\* line 680 alone: the curve and the oversaturation, not clamped
FinalRatio_Unclamped(open_ratio) ==
    FMulC(Pow(open_ratio, config.mouth_ratio_curve), config.mouth_ratio_oversaturation)

\* lines 680-681: final_ratio
FinalRatio(open_ratio) ==
    Clamp01(FMulC(Pow(open_ratio, config.mouth_ratio_curve),
                  config.mouth_ratio_oversaturation))

\* lines 684-685: target_value
TargetValue(info, final_ratio) ==
    info.range[1] + (final_ratio * (info.range[2] - info.range[1])) \div Scale

\* _on_mouth_ratio_update: set_variable on the mouth parameter with the
\* ratio remapped into the range of mouth_param_info (v is the value passed)
OnMouthRatioUpdate(e) ==
    /\ lastCmd' = [kind |-> "ratio", by |-> e.t, name |-> mouth_param_info.name,
                   v |-> TargetValue(mouth_param_info, FinalRatio(e.v))]
    /\ UNCHANGED <<lip_sync_thread, closes>>

\* a handler that closes the mouth only after the source ran out
ResetMouthOnSyncFinish_OnlyOnEof(e) ==
    /\ lip_sync_thread' = 0
    /\ IF variable_map.mouth /\ threads[e.t].ended = "eof"
       THEN /\ closes' = closes \cup {e.t}
            /\ lastCmd' = [kind |-> "close", by |-> e.t, name |-> variable_map.name,
                            v |-> variable_map.range[1]]
       ELSE UNCHANGED <<closes, lastCmd>>

\* a handler that leaves the mouth at the upper end of the range
ResetMouthOnSyncFinish_ToMaximum(e) ==
    /\ lip_sync_thread' = 0
    /\ IF variable_map.mouth
       THEN /\ closes' = closes \cup {e.t}
            /\ lastCmd' = [kind |-> "close", by |-> e.t, name |-> variable_map.name,
                            v |-> variable_map.range[2]]
       ELSE UNCHANGED <<closes, lastCmd>>

\* _reset_mouth_on_sync_finish: forget the thread, close the mouth
ResetMouthOnSyncFinish(e) ==
    /\ lip_sync_thread' = 0
    /\ IF variable_map.mouth
       THEN /\ closes' = closes \cup {e.t}
            /\ lastCmd' = [kind |-> "close", by |-> e.t, name |-> variable_map.name,
                            v |-> variable_map.range[1]]
       ELSE UNCHANGED <<closes, lastCmd>>

\* the event loop delivers the oldest queued signal
Dispatch ==
    /\ mainPc = "idle"
    /\ events # <<>>
    /\ events' = Tail(events)
    /\ IF Head(events).sig = "finished"
       THEN ResetMouthOnSyncFinish(Head(events))
       ELSE OnMouthRatioUpdate(Head(events))
    /\ UNCHANGED <<controllerVars, cacheVars, resolverVars, splashVars, editorVars, config, mouth_param_info, variable_map, mainPc, mainStack, mainArg, stop_event, threads,
                   producers, queues, extPuts>>

\* the steps of the GUI thread every caller shares
MainCommon ==
    \/ CallStopLipSync \/ StopSetEvent \/ StopCheck \/ StopDrain \/ StopPut
    \/ StartCheck \/ StartCreate
    \/ Dispatch

SessionIds == 1 .. MaxSessions

Engines == \E t \in SessionIds : Engine(t)

Producers == \E p \in SessionIds : Producer(p)

\* the steps of a call the GUI thread is in
MainStep ==
    \/ StopSetEvent \/ StopCheck \/ StopDrain \/ StopPut
    \/ StartCheck \/ StartCreate
    \/ FileClearEvent \/ FileStream

\* Scheduling.  Every thread keeps being scheduled (the OS scheduler): an
\* engine or producer that can take a step takes one, and a call the GUI
\* thread is in runs to its end.  The Qt event loop delivers a queued signal
\* whenever control is back in it.  Signals never wait for room in the event
\* queue, so an engine that is again and again able to emit does emit.  Calls
\* from outside and the caller's producer are under no obligation.
Fairness ==
    /\ \A t \in SessionIds : SF_vars(Engine(t))
    /\ \A p \in SessionIds : WF_vars(Producer(p))
    /\ WF_vars(MainStep)
    /\ SF_vars(Dispatch)

\* sessions fed by the caller through its own queue
NextQueue ==
    \/ MainCommon
    \/ CallStartLipSync
    \/ Engines
    \/ \E item \in FewItems : ExternalPut(item, MaxFewPuts)

SpecQueue == Init /\ [][NextQueue]_vars

\* one session fed by the caller, with every kind of block
NextEngine ==
    \/ MainCommon
    \/ (threads = <<>> /\ CallStartLipSync)
    \/ Engines
    \/ \E item \in ExtItems : ExternalPut(item, MaxExtPuts)

SpecEngine == Init /\ [][NextEngine]_vars

\* the levels fed to the envelope: silence, 0.001 (inside the silence
\* guard), 0.002, and speech levels
EnvLevels == Levels \cup {1, Soft}

EnvItems == {Frame(v) : v \in EnvLevels} \cup {EmptyBlock}

\* one session per activation ratio, fed with blocks of every level
InitEnvelope ==
    /\ InitWidget({[BaseConfig EXCEPT !.activation_ratio = ar] : ar \in ActivationRatios},
                  {DefaultMouthRange})
    /\ InitResolverIdle

NextEnvelope ==
    \/ (threads = <<>> /\ CallStartLipSync)
    \/ StartCheck \/ StartCreate
    \/ Dispatch
    \/ Engines
    \/ \E item \in EnvItems : ExternalPut(item, MaxEnvPuts)

SpecEnvelope == InitEnvelope /\ [][NextEnvelope]_vars

\* one session per curve, oversaturation and range of the mouth parameter
InitMouth ==
    /\ InitWidget({c \in Configs : c.activation_ratio = ActivationRatio}, MouthRanges)
    /\ InitResolverIdle

MouthItems == {Frame(300), Frame(Scale), None(0)}

NextMouth ==
    \/ (threads = <<>> /\ CallStartLipSync)
    \/ StartCheck \/ StartCreate
    \/ Dispatch
    \/ Engines
    \/ \E item \in MouthItems : ExternalPut(item, MaxExtPuts)

SpecMouth == InitMouth /\ [][NextMouth]_vars

\* one session fed by the caller, whose producer numbers its blocks: block
\* n has level n / Scale
NextOrder ==
    \/ MainCommon
    \/ (threads = <<>> /\ CallStartLipSync)
    \/ Engines
    \/ \E item \in {Frame(extPuts + 1), None(0)} : ExternalPut(item, MaxEnvPuts)

SpecOrder == Init /\ [][NextOrder]_vars

\* one session fed by the caller, under the scheduling above
NextStop ==
    \/ MainCommon
    \/ (threads = <<>> /\ CallStartLipSync)
    \/ Engines
    \/ \E item \in FewItems : ExternalPut(item, MaxExtPuts)

FairSpecStop == Init /\ [][NextStop]_vars /\ Fairness

\* sessions fed from audio files
NextFile ==
    \/ MainCommon
    \/ \E f \in Files : CallStartFromFile(f)
    \/ FileClearEvent \/ FileStream
    \/ Engines
    \/ Producers

SpecFile == Init /\ [][NextFile]_vars

\* one session fed from an audio file, under the scheduling above
NextFileOne ==
    \/ MainCommon
    \/ (threads = <<>> /\ producers = <<>> /\ \E f \in Files : CallStartFromFile(f))
    \/ FileClearEvent \/ FileStream
    \/ Engines
    \/ Producers

FairSpecFileOne == Init /\ [][NextFileOne]_vars /\ Fairness

FairSpecFile == SpecFile /\ Fairness

\* =========================================================== BoundParams.py
\* a pattern ^...$ is its sequence of atoms: a character, or a character
\* followed by ?
Exact(s) == [i \in 1 .. Len(s) |-> [c |-> s[i], opt |-> FALSE]]

Optional(ch) == <<[c |-> ch, opt |-> TRUE]>>

\* the entries of VARIABLE_PATTERNS modelled, in the order of the dict
FriendlyNames == <<"head_lr", "mouth_shape", "mouth_special", "mouth_talk", "part_a_fade">>

VARIABLE_PATTERNS ==
    [head_lr |-> Exact(HeadLR),
     mouth_shape |-> Exact(FaceMouth),
     mouth_special |-> Exact(FaceMouthSp),
     mouth_talk |-> Exact(FaceTalk),
     part_a_fade |-> Exact(<<"f", "a", "d", "e", "_">>) \o Optional("l") \o Exact(<<"a">>)]

RECURSIVE MatchAt(_, _, _, _)
\* atoms i.. of pattern p match s from position j up to '$': the end of
\* s, or the line feed that ends s
MatchAt(p, i, s, j) ==
    IF i > Len(p)
    THEN \/ j = Len(s) + 1
         \/ j = Len(s) /\ s[j] = Newline
    ELSE \/ j <= Len(s) /\ s[j] = p[i].c /\ MatchAt(p, i + 1, s, j + 1)
         \/ p[i].opt /\ MatchAt(p, i + 1, s, j)

\* re.compile(pattern).match(v) for a string v
RegexMatch(p, s) == MatchAt(p, 1, s, 1)

\* ---------------------------------------------------------- get_default_map
\* a Python tuple and a Python list of the same items are different values
Tuple(s) == [py |-> "tuple", items |-> s]

List(s) == [py |-> "list", items |-> s]

Absent ==
    [present |-> FALSE, name |-> NullName, range |-> Tuple(<<0, 0>>),
     category |-> "", special_usage |-> {}]

Entry(name, range, category, usage) ==
    [present |-> TRUE, name |-> name, range |-> range,
     category |-> category, special_usage |-> usage]

\* a table maps every friendly name to its entry, or to Absent
get_default_map ==
    [head_lr |-> Entry(NullName, Tuple(<<-30 * Scale, 30 * Scale>>), "head", {"HEAD_LR"}),
     mouth_shape |-> Entry(NullName, Tuple(DefaultMouthRange), "mouth", {"MOUTH_FORM"}),
     mouth_special |-> Absent,
     mouth_talk |-> Entry(NullName, Tuple(DefaultMouthRange), "mouth", {"MOUTH_OPEN"}),
     part_a_fade |-> Absent]

\* the friendly names of the built-in table
DefaultNames == {f \in DOMAIN get_default_map : get_default_map[f].present}

\* lines 111-116: the entry synthesized for a friendly name that is not in
\* the built-in table
AutoEntry(raw) == Entry(raw, Tuple(<<-Scale, Scale>>), "auto", {})

\* ------------------------------------------------------------ the manifest
\* The manifest in document order.  "var": a key var_lr / var_ud / var_lrm /
\* label with value v;  "opt": an element of an optionList that is a mapping
\* with 'label': v;  "optraw": an element of an optionList that is a number;
\* "other": any other key with value v.
ManifestEntry(k, v) == [k |-> k, v |-> v]

RawNames == {FaceTalk, FaceTalkNl, FadeA, FadeLa, FaceMouthSp, ArmType}

ManifestEntries ==
    {ManifestEntry("var", Str(n)) : n \in RawNames}
        \cup {ManifestEntry("var", Number),
              ManifestEntry("opt", Str(FadeLa)),
              ManifestEntry("opt", Number),
              ManifestEntry("optraw", Number),
              ManifestEntry("other", Str(FaceTalk))}

\* the manifest file: unreadable or no JSON, or a document of at most
\* MaxEntries entries
Unreadable == [readable |-> FALSE, data |-> <<>>]

Manifests ==
    {Unreadable} \cup
    {[readable |-> TRUE, data |-> d] :
        d \in UNION {[1 .. n -> ManifestEntries] : n \in 0 .. MaxEntries}}

\* ------------------------------------------------ _extract_all_vars_from_data
\* what the entry adds to vars_found: line 81 adds string values only, line
\* 84 adds the label of an option whatever its type
Added(e) ==
    CASE e.k = "var" -> IF e.v.t = "str" THEN {e.v} ELSE {}
      [] e.k = "opt" -> {e.v}
      [] OTHER -> {}

\* line 84, '"label" in opt' for an opt that is a number: TypeError
ExtractRaises(data) == \E i \in DOMAIN data : data[i].k = "optraw"

\* vars_found
ExtractAllVars(data) == UNION {Added(data[i]) : i \in DOMAIN data}

\* list(vars_found): the elements of the set in one of the orders the
\* iteration of a set can have
Orders(S) ==
    {o \in [1 .. Cardinality(S) -> S] :
        \A i, j \in 1 .. Cardinality(S) : o[i] = o[j] => i = j}

\* --------------------------------------------------- _build_map_from_json_file
\* line 106: matched
Matched(f, order) ==
    LET Test(v) == RegexMatch(VARIABLE_PATTERNS[f], v.s)
    IN  SelectSeq(order, Test)

\* a table built from the matches alone
ResolveEntry_MatchedOnly(f, order) ==
    IF Matched(f, order) # <<>>
    THEN IF get_default_map[f].present
         THEN [get_default_map[f] EXCEPT !.name = Matched(f, order)[1]]
         ELSE AutoEntry(Matched(f, order)[1])
    ELSE Absent

\* a resolution that gives every matched name the synthesized entry
ResolveEntry_AutoForAll(f, order) ==
    IF Matched(f, order) # <<>> THEN AutoEntry(Matched(f, order)[1])
    ELSE get_default_map[f]

\* lines 104-116, for one friendly name: result_map[friendly_name]
ResolveEntry(f, order) ==
    IF Matched(f, order) # <<>>
    THEN IF get_default_map[f].present
         THEN [get_default_map[f] EXCEPT !.name = Matched(f, order)[1]]
         ELSE AutoEntry(Matched(f, order)[1])
    ELSE get_default_map[f]

Returned(map) == [raised |-> FALSE, map |-> map]

\* an exception leaves _build_map_from_json_file
Raised == [raised |-> TRUE, map |-> [f \in DOMAIN get_default_map |-> Absent]]

\* regex.match(v) for a v that is no string: TypeError (line 106)
MatchRaises(order) == \E i \in DOMAIN order : order[i].t # "str"

\* _build_map_from_json_file on manifest m, with model_vars_found = order
BuildMapFromJsonFile(m, order) ==
    IF ~m.readable THEN Returned(get_default_map)
    ELSE IF ExtractRaises(m.data) \/ MatchRaises(order) THEN Raised
    ELSE Returned([f \in DOMAIN VARIABLE_PATTERNS |-> ResolveEntry(f, order)])

\* the state of the widget, which the resolver does not touch
widgetVars ==
    <<variable_map, mainPc, mainStack, mainArg, lip_sync_thread, stop_event,
      threads, producers, queues, events, closes, lastCmd, extPuts,
      config, mouth_param_info>>

\* one resolution of the manifest
Resolve ==
    /\ Len(resolved) < MaxResolves
    /\ \E order \in Orders(ExtractAllVars(manifest.data)) :
          resolved' = Append(resolved, BuildMapFromJsonFile(manifest, order))
    /\ UNCHANGED <<manifest, widgetVars, controllerVars, cacheVars, splashVars, editorVars>>

InitResolver ==
    /\ InitWidget({BaseConfig}, {DefaultMouthRange})
    /\ variable_map.mouth
    /\ manifest \in Manifests
    /\ resolved = <<>>

NextResolver == Resolve

SpecResolver == InitResolver /\ [][NextResolver]_vars

\* ------------------------------------------ EmoteWidget.find_param_by_usage
\* find_param_by_usage(usage_tag) on a table: whether an entry carries the
\* tag, and the name and the range of that entry, which is what the
\* lip-sync path reads of it
FindParamByUsage(tbl, usage_tag) ==
    LET hits == {f \in DOMAIN tbl : tbl[f].present /\ usage_tag \in tbl[f].special_usage}
    IN  IF hits = {}
        THEN [mouth |-> FALSE, name |-> NullName, range |-> <<0, 0>>]
        ELSE [mouth |-> TRUE,
              name |-> tbl[CHOOSE f \in hits : TRUE].name,
              range |-> tbl[CHOOSE f \in hits : TRUE].range.items]

\* a widget whose table is the built-in one (no model file, or no manifest
\* and no decompiler), or the built-in one with mouth_talk bound to
\* face_talk
InitBuiltIn ==
    /\ config = BaseConfig
    /\ \E t \in {get_default_map,
                  [get_default_map EXCEPT !.mouth_talk.name = Str(FaceTalk)]} :
          variable_map = FindParamByUsage(t, "MOUTH_OPEN")
    /\ InitLipSync
    /\ InitControllerReady
    /\ InitCacheIdle
    /\ InitResolverIdle

SpecBuiltIn == InitBuiltIn /\ [][NextMouth]_vars

\* ------------------------------------------------- json.dump and json.load
\* A Python value a table variable can hold is a dict of entries (py =
\* "table") or whatever else a JSON document loads to (py = "other").  A
\* JSON document is an object of entry objects (j = "table"), in which a
\* range is an array, or a document of another shape (j = "other").
PyTable(tbl) == [py |-> "table", v |-> tbl]

\* the content of a file that holds a JSON document in UTF-8
Text(doc) == [text |-> "json", doc |-> doc]

\* json.dump(new_map): a tuple and a list alike are written as an array
Dump(value) ==
    LET DumpEntry(e) ==
            IF e.present
            THEN [e EXCEPT !.range = [j |-> "array", items |-> @.items]]
            ELSE e
    IN  IF value.py = "table"
        THEN [j |-> "table", entries |-> [f \in DOMAIN value.v |-> DumpEntry(value.v[f])]]
        ELSE value.v

\* a load that forgets the stored range
LoadEntry_DefaultRange(e) ==
    IF e.present THEN [e EXCEPT !.range = List(<<-Scale, Scale>>)] ELSE e

\* json.load makes a list of every array
LoadEntry(e) == IF e.present THEN [e EXCEPT !.range = List(@.items)] ELSE e

\* json.load(f) on a document
Load(doc) ==
    IF doc.j = "table"
    THEN PyTable([f \in DOMAIN doc.entries |-> LoadEntry(doc.entries[f])])
    ELSE [py |-> "other", v |-> doc]

\* ------------------------------------------------------ EmoteWidget.__init__
\* lines 488-520: no controller yet, no model loaded, the built-in table
InitConstructed ==
    /\ config = BaseConfig
    /\ variable_map = PyTable(get_default_map)
    /\ InitLipSync
    /\ instance_controller = FALSE
    /\ command_queue = <<>>
    /\ executed = <<>>
    /\ issued = <<>>
    /\ player_ready = 0
    /\ plugin_flow = "idle"
    /\ plugins_are_ready = FALSE
    /\ player_is_ready = FALSE
    /\ is_splash_dismissed = FALSE
    /\ splash_dismissals = 0
    /\ current_model_filename = NoModel
    /\ last = NoCall
    /\ param_widgets = <<>>
    /\ edits = <<>>

\* ------------------------------------------------------------- get_bound_map
\* an exception leaves the function
RaisedValue == [py |-> "raised", v |-> <<>>]

\* a manifest file next to the model
ManifestFile(m) == [text |-> "manifest", doc |-> m]

\* the manifest PsbDecompile.exe writes for a model
Decompiled == [readable |-> TRUE, data |-> <<ManifestEntry("var", Str(FaceTalk))>>]

\* lines 205-209: cache_file of get_bound_map, from os.path.basename(model_path)
LookupKey(name) == <<CACHE_DIR, name[Len(name)]>>

\* lines 247-252: cache_file of update_cache, from model_filename as given
StoreKey(model_filename) == <<CACHE_DIR>> \o model_filename

\* update_cache(model_filename, new_map): the files afterwards, and the
\* return value.  .emote_cache is created on demand (lines 249-250) and
\* nothing creates a directory below it: open() of a file that is not
\* directly in .emote_cache raises, which line 259 catches.
UpdateCache(model_filename, new_map) ==
    IF Len(StoreKey(model_filename)) = 2
    THEN [ok |-> TRUE,
          files |-> [cache_files EXCEPT ![StoreKey(model_filename)] = Text(Dump(new_map))]]
    ELSE [ok |-> FALSE, files |-> cache_files]

\* a cache that is never used
CacheLoad_AlwaysMiss(found) == [how |-> "miss", value |-> NoValue]

\* lines 211-217: json.load of an existing cache file is returned as it is;
\* json.JSONDecodeError is caught, the UnicodeDecodeError of open(...,
\* encoding="utf-8") on other bytes is not
CacheLoad(found) ==
    CASE found.text = "json" -> [how |-> "hit", value |-> Load(found.doc)]
      [] found.text = "undecodable" -> [how |-> "raise", value |-> RaisedValue]
      [] OTHER -> [how |-> "miss", value |-> NoValue]

\* lines 221-225: the manifest file get_bound_map ends up with: the one next
\* to the model, or the one _run_decompile_in_sandbox copies there
Acquire(name) ==
    IF json_files[name] # NoFile THEN json_files[name]
    ELSE IF decompiler = "works" THEN ManifestFile(Decompiled)
    ELSE NoFile

\* lines 219-240, after a cache miss; line 237: a dict is true when it is
\* not empty
Generate(name, order) ==
    LET file == Acquire(name)
        Truthy(map) == \E f \in DOMAIN map : map[f].present
        acquired == {"acquire"} \cup (IF json_files[name] = NoFile THEN {"decompile"} ELSE {})
        built == BuildMapFromJsonFile(file.doc, order)
        update == UpdateCache(<<name[Len(name)]>>, PyTable(built.map))
    IN  IF file = NoFile
        THEN [outcome |-> PyTable(get_default_map), json |-> json_files,
              cache |-> cache_files, did |-> acquired]
        ELSE IF built.raised
        THEN [outcome |-> RaisedValue, json |-> [json_files EXCEPT ![name] = file],
              cache |-> cache_files, did |-> acquired \cup {"resolve"}]
        ELSE IF Truthy(built.map)
        THEN [outcome |-> PyTable(built.map), json |-> [json_files EXCEPT ![name] = NoFile],
              cache |-> update.files,
              did |-> acquired \cup {"resolve", "delete", "write"}]
        ELSE [outcome |-> PyTable(built.map), json |-> [json_files EXCEPT ![name] = NoFile],
              cache |-> cache_files, did |-> acquired \cup {"resolve", "delete"}]

\* get_bound_map(model_path) for the model file models/<name>
GetBoundMap(name, order) ==
    LET loaded == CacheLoad(cache_files[LookupKey(name)])
    IN  IF name \notin model_files
        THEN [outcome |-> PyTable(get_default_map), json |-> json_files,
              cache |-> cache_files, did |-> {}]
        ELSE IF loaded.how = "miss" THEN Generate(name, order)
        ELSE [outcome |-> loaded.value, json |-> json_files,
              cache |-> cache_files, did |-> {}]

\* the state of the widget the cache does not touch
sessionVars ==
    <<mainPc, mainStack, mainArg, lip_sync_thread, stop_event, threads, producers,
      queues, events, closes, lastCmd, extPuts, config, mouth_param_info>>

\* -------------------------------------------------- EmoteWidget.load_model
\* lines 748-752, with list(vars_found) in one of the orders it can have
\* for the manifest; an exception of get_bound_map leaves variable_map as
\* it was
LoadModel(name) ==
    \E order \in IF Acquire(name).text = "manifest" /\ Acquire(name).doc.readable
                 THEN Orders(ExtractAllVars(Acquire(name).doc.data))
                 ELSE {<<>>} :
        LET r == GetBoundMap(name, order)
            \* the table a successful update_cache stored in the same cache
            \* file in the call before
            StoredBefore ==
                IF /\ last.call = "update_cache" /\ "write" \in last.did
                   /\ last.key = LookupKey(name)
                THEN last.arg ELSE NoValue
        IN  /\ current_model_filename' = name
            /\ variable_map' = IF r.outcome = RaisedValue THEN variable_map ELSE r.outcome
            /\ json_files' = r.json
            /\ cache_files' = r.cache
            /\ last' = [call |-> "get_bound_map", name |-> name, key |-> LookupKey(name),
                        exists |-> name \in model_files,
                        found |-> cache_files[LookupKey(name)],
                        manifest |-> Acquire(name), arg |-> NoValue,
                        stored |-> StoredBefore,
                        did |-> r.did, outcome |-> r.outcome]
            /\ UNCHANGED <<model_files, decompiler>>
            /\ UNCHANGED <<sessionVars, resolverVars, splashVars, editorVars, controllerVars>>

\* ----------------------------------------------- EmoteWidget.save_bindings
SaveBindings ==
    /\ current_model_filename # NoModel
    /\ LET update == UpdateCache(current_model_filename, variable_map)
       IN  /\ cache_files' = update.files
           /\ last' = [call |-> "update_cache", name |-> current_model_filename,
                       key |-> StoreKey(current_model_filename),
                       exists |-> current_model_filename \in model_files,
                       found |-> cache_files[StoreKey(current_model_filename)],
                       manifest |-> NoFile, arg |-> variable_map, stored |-> NoValue,
                       did |-> IF update.ok THEN {"write"} ELSE {},
                       outcome |-> NoValue]
    /\ UNCHANGED <<variable_map, current_model_filename, model_files, json_files, decompiler>>
    /\ UNCHANGED <<sessionVars, resolverVars, splashVars, editorVars, controllerVars>>

\* ---------------------------------------- Tester: _on_param_data_in_ui_changed
\* the user edits the range of an entry: the entry is replaced by one whose
\* range is the tuple (min_val, max_val)
EditBinding(f, r) ==
    /\ variable_map.py = "table"
    /\ variable_map.v[f].present
    /\ variable_map.v[f].range # Tuple(r)
    /\ variable_map' = PyTable([variable_map.v EXCEPT ![f].range = Tuple(r)])
    /\ UNCHANGED <<cacheVars, sessionVars, resolverVars, splashVars, editorVars, controllerVars>>

\* what a cache file can hold: nothing; text that is no JSON (an empty or
\* truncated file); bytes that are no UTF-8; the documents [], 5 and
\* {"mouth_talk": 5}; a table an earlier run stored: the built-in one, or
\* one bound to face_talk with an edited range
CacheContents ==
    {NoFile, [text |-> "invalid", doc |-> <<>>], [text |-> "undecodable", doc |-> <<>>]}
        \cup {Text([j |-> "other", entries |-> x]) : x \in {"[]", "5", "{mouth_talk: 5}"}}
        \cup {Text(Dump(PyTable(t))) :
                t \in {get_default_map,
                       [get_default_map EXCEPT !.mouth_talk.name = Str(FaceTalk),
                                               !.mouth_talk.range = Tuple(<<0, 500>>)]}}

\* a widget just constructed, in a directory where each model file exists or
\* not; the manifest file next to a model is missing, no JSON, the
\* decompiler's, one with two names for part_a_fade, or one whose optionList
\* holds a number; the cache file of chara.psb is one of CacheContents
InitCache ==
    /\ InitConstructed
    /\ InitResolverIdle
    /\ model_files \in SUBSET ModelNames
    /\ json_files \in
         [ModelNames ->
            {NoFile, ManifestFile(Unreadable), ManifestFile(Decompiled),
             ManifestFile([readable |-> TRUE,
                           data |-> <<ManifestEntry("var", Str(FadeA)),
                                      ManifestEntry("var", Str(FadeLa))>>]),
             ManifestFile([readable |-> TRUE,
                           data |-> <<ManifestEntry("optraw", Number)>>])}]
    /\ decompiler \in {"missing", "fails", "works"}
    /\ \E c \in CacheContents :
          cache_files = [k \in CachePaths |->
                            IF k = LookupKey(<<"chara.psb">>) THEN c ELSE NoFile]

NextCache ==
    \/ \E name \in ModelNames : LoadModel(name)
    \/ SaveBindings
    \/ \E r \in {<<0, 500>>, DefaultMouthRange} : EditBinding("mouth_talk", r)

SpecCache == InitCache /\ [][NextCache]_vars

\* ------------------------------------------------ Tester: the binding panel
\* lines 683-688: the ParamControlWidget made for the model variable label
\* from the snapshot of the table: the row of the first entry that holds
\* the label as its raw name (the entries of the tables here hold distinct
\* raw names), or else a row "unmapped", shown with the range (-1.0, 1.0)
\* and the first category; the widget keeps a copy of the entry
\* (ParamControlWidget.__init__).  of: the model the snapshot was taken for.
WidgetFor(snapshot, label) ==
    LET hits == {f \in DOMAIN snapshot :
                    snapshot[f].present /\ snapshot[f].name = Str(label)}
    IN  IF hits = {}
        THEN [friendly_name |-> "unmapped",
              param_data |-> Entry(Str(label), Tuple(<<-Scale, Scale>>), "uncategorized", {}),
              of |-> current_model_filename]
        ELSE [friendly_name |-> CHOOSE f \in hits : TRUE,
              param_data |-> snapshot[CHOOSE f \in hits : TRUE],
              of |-> current_model_filename]

\* _on_variables_for_binding_received(variables_list), with the batches of
\* _process_widget_creation_batch: the old rows are deleted, and one row
\* per variable is made from a snapshot of the table as it is now
OnVariablesForBindingReceived(variables_list) ==
    /\ current_model_filename # NoModel
    /\ param_widgets' =
          IF variable_map.py = "table"
          THEN [i \in DOMAIN variables_list |-> WidgetFor(variable_map.v, variables_list[i])]
          ELSE <<>>
    /\ UNCHANGED <<edits, variable_map>>
    /\ UNCHANGED <<cacheVars, sessionVars, resolverVars, splashVars, controllerVars>>

\* ParamControlWidget._on_data_changed on row i when the user sets the range
\* to r, and the _on_param_data_in_ui_changed it signals: the row's entry is
\* assigned to the table under the row's friendly name
OnParamDataInUiChanged(i, r) ==
    LET w == param_widgets[i]
        new_data == [w.param_data EXCEPT !.range = Tuple(r)]
    IN  /\ i \in DOMAIN param_widgets
        /\ Len(edits) < MaxEdits
        /\ variable_map.py = "table"
        /\ w.param_data.range # Tuple(r)
        /\ param_widgets' = [param_widgets EXCEPT ![i].param_data = new_data]
        /\ variable_map' =
              PyTable([f \in DOMAIN variable_map.v \cup {w.friendly_name} |->
                          IF f = w.friendly_name THEN new_data ELSE variable_map.v[f]])
        /\ edits' = Append(edits, [friendly_name |-> w.friendly_name,
                                   param_data |-> new_data,
                                   of |-> w.of, into |-> current_model_filename])
        /\ UNCHANGED <<cacheVars, sessionVars, resolverVars, splashVars, controllerVars>>

\* a widget just constructed in a directory that holds chara.psb with the
\* decompiler's manifest next to it, and sub/chara.psb or not; the cache
\* directory is empty
InitEditor ==
    /\ InitConstructed
    /\ InitResolverIdle
    /\ model_files \in {{<<"chara.psb">>}, ModelNames}
    /\ json_files = [n \in ModelNames |->
                        IF n = <<"chara.psb">> THEN ManifestFile(Decompiled) ELSE NoFile]
    /\ decompiler = "missing"
    /\ cache_files = [c \in CachePaths |-> NoFile]

\* the player reports the variables face_talk, fade_a and arm_type for
\* either model
NextEditor ==
    \/ \E name \in ModelNames : LoadModel(name)
    \/ OnVariablesForBindingReceived(<<FaceTalk, FadeA, ArmType>>)
    \/ \E i \in 1 .. 3, r \in {<<0, 500>>, DefaultMouthRange} :
          OnParamDataInUiChanged(i, r)
    \/ SaveBindings

SpecEditor == InitEditor /\ [][NextEditor]_vars

\* ------------------------------------------------- EmoteWidget._controller
\* a controller command: the method name, and whether the controller's
\* method raises when it is called
Commands == [name : {"show", "set_variable"}, raises : BOOLEAN]

\* a widget method "if self._controller: self._controller.<name>(...)": with
\* a controller the method is called at once (an exception it raises goes
\* to the caller), without one CommandRecorder.record_command appends it
Command(c) ==
    /\ Len(issued) < MaxCommands
    /\ issued' = Append(issued, [cmd |-> c, buffered |-> ~instance_controller])
    /\ IF instance_controller
       THEN /\ executed' = Append(executed, c)
            /\ UNCHANGED command_queue
       ELSE /\ command_queue' = Append(command_queue, c)
            /\ UNCHANGED executed
    /\ UNCHANGED <<instance_controller, player_ready>>
    /\ UNCHANGED <<widgetVars, resolverVars, splashVars, editorVars, cacheVars>>

\* a replay that the first failing command ends
Replay_Unprotected(q) ==
    IF \E i \in DOMAIN q : q[i].raises
    THEN SubSeq(q, 1, CHOOSE i \in DOMAIN q :
                         q[i].raises /\ \A k \in 1 .. i - 1 : ~q[k].raises)
    ELSE q

\* lines 573-578: the calls the replay of the queue makes; an exception of
\* one command is logged and the next command follows
Replay(q) == q

\* a splash screen that goes as soon as one of the two is ready
CheckIfAllReady_Either(plugins, player) ==
    IF (plugins \/ player) /\ ~is_splash_dismissed
    THEN /\ is_splash_dismissed' = TRUE
         /\ splash_dismissals' = splash_dismissals + 1
    ELSE UNCHANGED <<is_splash_dismissed, splash_dismissals>>

\* _check_if_all_ready, and the _dismiss_splash_screen it calls, with the
\* two flags as its caller has just set them
CheckIfAllReady(plugins, player) ==
    IF plugins /\ player /\ ~is_splash_dismissed
    THEN /\ is_splash_dismissed' = TRUE
         /\ splash_dismissals' = splash_dismissals + 1
    ELSE UNCHANGED <<is_splash_dismissed, splash_dismissals>>

\* _on_player_ready_handler
OnPlayerReadyHandler ==
    /\ player_ready < MaxReady
    /\ IF ~instance_controller
       THEN /\ instance_controller' = TRUE
            /\ executed' = executed \o Replay(command_queue)
            /\ command_queue' = <<>>
       ELSE UNCHANGED <<instance_controller, executed, command_queue>>
    /\ player_is_ready' = TRUE
    /\ player_ready' = player_ready + 1
    /\ CheckIfAllReady(plugins_are_ready, TRUE)
    /\ UNCHANGED <<issued, plugin_flow, plugins_are_ready>>
    /\ UNCHANGED <<widgetVars, resolverVars, editorVars, cacheVars>>

\* _on_page_load_finished(ok): a page that loaded starts the thread that
\* loads the plugins
OnPageLoadFinished(ok) ==
    /\ plugin_flow = "idle"
    /\ plugin_flow' = IF ok THEN "loading" ELSE "failed"
    /\ UNCHANGED <<plugins_are_ready, player_is_ready, is_splash_dismissed,
                   splash_dismissals>>
    /\ UNCHANGED <<widgetVars, resolverVars, editorVars, cacheVars, controllerVars>>

\* _on_plugins_load_finished: the plugins are registered, and
\* _proceed_to_model_loading_step is left to a single-shot timer
OnPluginsLoadFinished ==
    /\ plugin_flow = "loading"
    /\ plugin_flow' = "timer"
    /\ UNCHANGED <<plugins_are_ready, player_is_ready, is_splash_dismissed,
                   splash_dismissals>>
    /\ UNCHANGED <<widgetVars, resolverVars, editorVars, cacheVars, controllerVars>>

\* _proceed_to_model_loading_step, when the timer fires
ProceedToModelLoadingStep ==
    /\ plugin_flow = "timer"
    /\ plugin_flow' = "done"
    /\ plugins_are_ready' = TRUE
    /\ CheckIfAllReady(TRUE, player_is_ready)
    /\ UNCHANGED player_is_ready
    /\ UNCHANGED <<widgetVars, resolverVars, editorVars, cacheVars, controllerVars>>

InitController ==
    /\ InitConstructed
    /\ InitResolverIdle
    /\ model_files = {}
    /\ json_files = [n \in ModelNames |-> NoFile]
    /\ decompiler = "missing"
    /\ cache_files = [c \in CachePaths |-> NoFile]

NextController ==
    \/ \E c \in Commands : Command(c)
    \/ OnPlayerReadyHandler

SpecController == InitController /\ [][NextController]_vars

\* the start-up of a widget: the page, the plugins and the player, while
\* the caller issues commands
NextSplash ==
    \/ \E ok \in BOOLEAN : OnPageLoadFinished(ok)
    \/ OnPluginsLoadFinished
    \/ ProceedToModelLoadingStep
    \/ OnPlayerReadyHandler
    \/ \E c \in Commands : Command(c)

SpecSplash == InitController /\ [][NextSplash]_vars

\* ===================================================================== claims
\* the loop of run() has been entered and has not been left
LoopActive(t) == threads[t].pc \in {"loop", "get"}

FinishedPending(t) == \E i \in DOMAIN events : events[i] = FinishedEvent(t)

\* C1: at most one engine loop (StreamLipSyncThread.run) is active per
\* widget at any time: a new session's loop begins only after the loop of
\* the previous session has exited.
C1_AtMostOneEngineLoop ==
    Cardinality({t \in DOMAIN threads : LoopActive(t)}) <= 1

\* C4 as stated: the closing set_variable is issued only for a session that
\* ended because its source ran out (it consumed the producer's sentinel),
\* never for one ended by stop_lip_sync.
C4_CloseOnlyOnExhaustion ==
    \A t \in closes : threads[t].ended = "eof"

\* C4 as amended: the closing set_variable is issued by the finished handler
\* of every session whose loop has exited, whatever ended it (the source
\* running out, or stop_lip_sync), and for no session still running.
C4_CloseOnEveryFinish ==
    \A t \in DOMAIN threads :
        t \in closes <=> (threads[t].pc = "finished" /\ ~FinishedPending(t))

\* a session ended by stop_lip_sync has had its mouth closed by the handler
C4_Witness ==
    \E t \in closes : threads[t].ended \in {"flag", "stop"}

\* C10: every session begins with the envelope mean_rms = 0, peak_rms = 0,
\* whatever envelope the earlier sessions of the widget have reached.
C10_FreshEnvelope ==
    \A t \in DOMAIN threads :
        threads[t].pc = "start" => threads[t].mean_rms = 0 /\ threads[t].peak_rms = 0

\* a second session starts after the first one has heard sound
C10_Witness ==
    /\ Len(threads) >= 2
    /\ threads[1].peak_rms > 0
    /\ threads[2].pc = "start"

\* stop() is running on engine t
Stopping(t) ==
    /\ t \in DOMAIN threads
    /\ mainPc \in {"stop_drain", "stop_put"}
    /\ mainArg.target = t

Finished(t) == t \in DOMAIN threads /\ threads[t].pc = "finished"

Takes(t, kinds) ==
    /\ threads[t].pc = "get"
    /\ threads'[t].pc # "get"
    /\ queues[threads[t].q] # <<>>
    /\ Head(queues[threads[t].q]).k \in kinds

\* C7: a malformed or empty audio block never ends the engine loop: after
\* taking one the engine is back at the head of the loop, and the loop is
\* left only at the sentinel or with is_running cleared by stop().
C7_BadBlockNeverFatal ==
    [][\A t \in DOMAIN threads :
          /\ Takes(t, {"bad", "empty"}) => threads'[t].pc = "loop"
          /\ (threads[t].pc # "finished" /\ threads'[t].pc = "finished")
                => \/ threads[t].pc = "loop" /\ ~threads[t].is_running
                   \/ Takes(t, {"none"})]_vars

\* an engine that logged a malformed block went on to the caller's sentinel
C7_Witness ==
    \E t \in DOMAIN threads :
        /\ threads[t].errors > 0
        /\ threads[t].ended = "eof"

\* C8: a malformed or empty block counts as a zero-RMS frame: the envelope
\* after it is what the update with RMS 0 gives, and ratio 0.0 is emitted.
C8_BadBlockIsZeroFrame ==
    [][\A t \in DOMAIN threads :
          Takes(t, {"bad", "empty"})
            => /\ threads'[t].mean_rms = UpdateMean(threads[t].mean_rms, 0)
               /\ threads'[t].peak_rms = UpdatePeak(threads[t].peak_rms, 0)
               /\ events' = Append(events, RatioEvent(t, 0))]_vars

\* C9: mean_rms and peak_rms are numbers, and not negative, in every state
C9_EnvelopeValid ==
    \A t \in DOMAIN threads :
        /\ ~IsNaN(threads[t].mean_rms) /\ threads[t].mean_rms >= 0
        /\ ~IsNaN(threads[t].peak_rms) /\ threads[t].peak_rms >= 0

\* what producer p has pushed is its audio blocks followed, once it has
\* ended, by exactly one sentinel
SentinelLast(p) ==
    LET e == producers[p].emitted
    IN  /\ \A i \in DOMAIN e : e[i].k = "none" => i = Len(e)
        /\ (e # <<>> /\ e[Len(e)].k = "none") <=> producers[p].pc = "done"

ProducerDone(p) == p \in DOMAIN producers /\ producers[p].pc = "done"

\* every engine reading the queue of producer p has left its loop
ConsumerEnded(p) ==
    /\ p \in DOMAIN producers
    /\ \A t \in DOMAIN threads : threads[t].q = producers[p].q => Finished(t)

\* C5: a file producer always ends (at the end of the file, on
\* cancellation, on an error of open or read) and then has pushed the end
\* sentinel exactly once, after all its blocks; the engine consuming its
\* queue then terminates.
C5_ProducerSentinel ==
    /\ [](\A p \in DOMAIN producers : SentinelLast(p))
    /\ \A p \in SessionIds : (p \in DOMAIN producers) ~> ProducerDone(p)
    /\ \A p \in SessionIds :
          ProducerDone(p) ~> ConsumerEnded(p)

\* a producer whose read raised has ended, and its engine with it
C5_Witness ==
    \E p \in DOMAIN producers, t \in DOMAIN threads :
        /\ producers[p].file = "badread"
        /\ producers[p].pc = "done"
        /\ threads[t].q = producers[p].q
        /\ threads[t].ended = "eof"

\* C2: at most one file producer reads, plays and pushes blocks at a time:
\* once a later producer has pushed its first block, no earlier producer
\* pushes a block any more.
C2_ProducersDoNotOverlap ==
    [][\A p \in DOMAIN producers :
          producers'[p].pos > producers[p].pos
            => \A q \in DOMAIN producers : q > p => producers[q].pos = 0]_vars

\* C6: when the audio file cannot be opened, the engine of that session
\* never enters its loop.
C6_NoEngineForUnopenableFile ==
    \A p \in DOMAIN producers :
        ~CanOpen(producers[p].file)
          => \A t \in DOMAIN threads :
                 threads[t].q = producers[p].q => threads[t].pc = "start"

\* engine t takes an audio block from its queue in this step
TakesBlock(t) == Takes(t, {"frame", "empty"})

\* the signal emitted last
LastEvent(evs) == evs[Len(evs)]

\* engine t has processed a block and the ratio it emitted for it, r, is
\* still waiting for the GUI thread
JustEmitted(t) ==
    /\ threads[t].pc = "loop"
    /\ events # <<>>
    /\ LastEvent(events).sig = "ratio"
    /\ LastEvent(events).t = t

\* C11: for a frame whose current_rms is at most mean_rms (the floor after
\* its update) the ratio emitted is exactly 0, and the ratio emitted for a
\* frame is never negative.
C11_NoActivationBelowFloor ==
    [][\A t \in DOMAIN threads :
          TakesBlock(t)
            => LET cur == threads'[t].current_rms
                   mean == threads'[t].mean_rms
                   r == LastEvent(events').v
               IN  /\ ~IsNaN(r) /\ r >= 0
                   /\ (~IsNaN(cur) /\ ~IsNaN(mean) /\ cur <= mean) => r = 0]_vars

\* an audible block below the floor an earlier loud block has raised, with
\* the ceiling well above the floor, was answered with ratio 0
C11_Witness ==
    \E t \in DOMAIN threads :
        /\ JustEmitted(t)
        /\ threads[t].current_rms > 0
        /\ threads[t].current_rms <= threads[t].mean_rms
        /\ FGt(DynamicRange(threads[t].mean_rms, threads[t].peak_rms), RangeGuard)
        /\ LastEvent(events).v = 0

\* C12: from one state of the loop to the next (a frame or a timeout)
\* peak_rms increases only when the frame's current_rms exceeds the previous
\* peak_rms, and then it becomes exactly current_rms.
C12_PeakRisesOnlyToLevel ==
    [][\A t \in DOMAIN threads :
          FGt(threads'[t].peak_rms, threads[t].peak_rms)
            => /\ TakesBlock(t)
               /\ FGt(threads'[t].current_rms, threads[t].peak_rms)
               /\ threads'[t].peak_rms = threads'[t].current_rms]_vars

\* the ceiling of an engine that had heard sound before jumped to the level
\* of a louder block
C12_Witness ==
    \E t \in DOMAIN threads :
        /\ threads[t].pc = "loop"
        /\ threads[t].current_rms = Scale
        /\ threads[t].peak_rms = Scale
        /\ threads[t].mean_rms > FMulC(Scale, Scale - MeanSmooth)

\* C13 as stated: with activation_ratio = 0 every frame whose current_rms is
\* greater than mean_rms gets a ratio above 0.
C13_ZeroRatioActivatesAboveFloor ==
    [][\A t \in DOMAIN threads :
          (/\ TakesBlock(t)
           /\ threads[t].activation_ratio = 0
           /\ FGt(threads'[t].current_rms, threads'[t].mean_rms))
            => LastEvent(events').v > 0]_vars

\* C13 as amended: with activation_ratio = 0 every frame whose current_rms
\* is greater than mean_rms and whose dynamic range peak_rms - mean_rms is
\* above the silence guard 0.001 gets a ratio above 0; inside the guard the
\* ratio is 0.
C13_ZeroRatioActivatesOutsideGuard ==
    [][\A t \in DOMAIN threads :
          (/\ TakesBlock(t)
           /\ threads[t].activation_ratio = 0
           /\ FGt(threads'[t].current_rms, threads'[t].mean_rms))
            => LET range == DynamicRange(threads'[t].mean_rms, threads'[t].peak_rms)
               IN  IF FGt(range, RangeGuard)
                   THEN LastEvent(events').v > 0
                   ELSE LastEvent(events').v = 0]_vars

\* with activation_ratio = 0 a block between the floor and the ceiling was
\* answered with a ratio between 0 and 1
C13_Witness ==
    \E t \in DOMAIN threads :
        /\ JustEmitted(t)
        /\ threads[t].activation_ratio = 0
        /\ threads[t].current_rms > threads[t].mean_rms
        /\ threads[t].current_rms < threads[t].peak_rms
        /\ LastEvent(events).v > 0
        /\ LastEvent(events).v < Scale

\* C14: every ratio the engine emits through mouth_open_ratio_updated, for
\* a frame or for a timeout, is a number in [0, 1].
C14_RatioInUnitInterval ==
    \A i \in DOMAIN events :
        events[i].sig = "ratio"
          => ~IsNaN(events[i].v) /\ events[i].v >= 0 /\ events[i].v <= Scale

\* a ratio for a well-formed block was emitted from an envelope an empty
\* block had turned into nan
C14_Witness ==
    \E t \in DOMAIN threads :
        /\ JustEmitted(t)
        /\ IsNaN(threads[t].mean_rms)
        /\ threads[t].current_rms > 0
        /\ LastEvent(events).v = 0

\* C15: every value _on_mouth_ratio_update passes to set_variable lies in
\* the range [min, max] of the mouth parameter, for every ratio the engine
\* emits and every curve exponent and oversaturation.
C15_TargetWithinRange ==
    lastCmd.kind = "ratio"
      => /\ lastCmd.v >= mouth_param_info.range[1]
         /\ lastCmd.v <= mouth_param_info.range[2]

\* a ratio below 1 that the oversaturation pushed to the maximum of a range
\* other than (0, 1)
C15_Witness ==
    /\ lastCmd.kind = "ratio"
    /\ mouth_param_info.range # DefaultMouthRange
    /\ lastCmd.v = mouth_param_info.range[2]
    /\ config.mouth_ratio_oversaturation > Scale
    /\ \E t \in DOMAIN threads : threads[t].current_rms < threads[t].peak_rms

\* the resolutions that returned a table
Tables_Returned == {i \in DOMAIN resolved : ~resolved[i].raised}

\* the raw names extracted from the manifest that match the pattern of f
Matching(f) ==
    {v \in ExtractAllVars(manifest.data) :
        v.t = "str" /\ RegexMatch(VARIABLE_PATTERNS[f], v.s)}

\* C16: a table the resolver returns contains every friendly name of the
\* built-in table, whatever the manifest, and beyond them only friendly
\* names a raw name of the manifest matched.
C16_DefaultNamesKept ==
    \A i \in Tables_Returned :
        /\ \A f \in DefaultNames : resolved[i].map[f].present
        /\ \A f \in DOMAIN VARIABLE_PATTERNS \ DefaultNames :
              resolved[i].map[f].present => Matching(f) # {}

\* a table with an auto-matched extra name in which a built-in name no raw
\* name matched is still present
C16_Witness ==
    \E i \in Tables_Returned :
        /\ resolved[i].map["mouth_special"].present
        /\ Matching("mouth_talk") = {}
        /\ resolved[i].map["mouth_talk"].present

RECURSIVE InManifestOrder(_)
\* the raw names extracted from the document, each once, in the order of
\* their first occurrence
InManifestOrder(data) ==
    IF data = <<>> THEN <<>>
    ELSE LET front == InManifestOrder(SubSeq(data, 1, Len(data) - 1))
             new == {v \in Added(data[Len(data)]) :
                        \A k \in DOMAIN front : front[k] # v}
         IN  IF new = {} THEN front ELSE Append(front, CHOOSE v \in new : TRUE)

\* C17: when several raw names of the manifest match the pattern of one
\* friendly name, the entry is bound to the one that comes first in the
\* manifest.
C17_FirstInManifestOrderWins ==
    \A i \in Tables_Returned :
        \A f \in DOMAIN VARIABLE_PATTERNS :
            Matching(f) # {}
              => resolved[i].map[f].name = Matched(f, InManifestOrder(manifest.data))[1]

\* C18: two resolutions of the same manifest give the same result.
C18_ResolutionIsAFunction ==
    \A i, j \in DOMAIN resolved : resolved[i] = resolved[j]

\* C19: no resolution raises, whatever the manifest contains.
C19_NoExceptionEscapes ==
    \A i \in DOMAIN resolved : ~resolved[i].raised

\* the entry of f in table i is bound to a raw name of the manifest that
\* matches the pattern of f, or, when there is none, is what the built-in
\* table has for f (raw name null) or is absent
BoundToAMatch(i, f) ==
    IF Matching(f) # {}
    THEN resolved[i].map[f].present /\ resolved[i].map[f].name \in Matching(f)
    ELSE resolved[i].map[f] = get_default_map[f]

\* C20: every friendly name of the pattern table is bound to a raw name of
\* the manifest matching its pattern if there is one, and is otherwise left
\* with raw name null (built-in names) or absent (the others); a manifest
\* with the raw name face_talk gives mouth_talk bound to face_talk and
\* tagged MOUTH_OPEN.
C20_BoundToMatchingName ==
    \A i \in Tables_Returned :
        /\ \A f \in DOMAIN VARIABLE_PATTERNS : BoundToAMatch(i, f)
        /\ Str(FaceTalk) \in ExtractAllVars(manifest.data)
             => /\ resolved[i].map["mouth_talk"].name = Str(FaceTalk)
                /\ "MOUTH_OPEN" \in resolved[i].map["mouth_talk"].special_usage

\* C28: with no entry tagged MOUTH_OPEN in the table, starting lip sync
\* (from a queue or from a file) creates no engine and no file producer and
\* issues no set_variable.
C28_NothingStartsWithoutMouth ==
    ~variable_map.mouth
      => threads = <<>> /\ producers = <<>> /\ lastCmd = NoCmd

\* engine t's receive times out in this step
TimesOut(t) ==
    /\ threads[t].pc = "get"
    /\ queues[threads[t].q] = <<>>
    /\ threads'[t].pc # "get"

\* C29: on a receive timeout the engine multiplies peak_rms by
\* peak_smoothing, leaves mean_rms as it is, and emits ratio 0.0 and the
\* debug data of a silent step (rms 0, threshold = mean).
C29_TimeoutDecaysPeakOnly ==
    [][\A t \in DOMAIN threads :
          TimesOut(t)
            => /\ threads'[t].peak_rms = FMulC(threads[t].peak_rms, PeakSmooth)
               /\ threads'[t].mean_rms = threads[t].mean_rms
               /\ events' = Append(events, RatioEvent(t, 0))
               /\ threads'[t].debug = Debug(0, threads[t].mean_rms,
                                            threads'[t].peak_rms,
                                            threads[t].mean_rms)]_vars

\* a timeout after an audible block: the ceiling has decayed below the
\* block's level, the floor the block raised is unchanged
C29_Witness ==
    \E t \in DOMAIN threads :
        /\ JustEmitted(t)
        /\ threads[t].current_rms > 0
        /\ threads[t].debug.rms = 0
        /\ threads[t].mean_rms = FMulC(threads[t].current_rms, Scale - MeanSmooth)
        /\ threads[t].mean_rms > 0
        /\ threads[t].peak_rms = FMulC(threads[t].current_rms, PeakSmooth)

\* C30: the engine processes blocks in the order they were enqueued (block
\* n is processed only after blocks numbered below n, or not at all), and
\* after it has consumed a sentinel it processes nothing more and emits
\* nothing more.
C30_FifoUntilSentinel ==
    [][\A t \in DOMAIN threads :
          /\ Takes(t, {"frame"})
               => Head(queues[threads[t].q]).v > threads[t].current_rms
          /\ threads[t].pc = "finished"
               => /\ threads'[t] = threads[t]
                  /\ \A i \in DOMAIN events' :
                        (events'[i].t = t /\ events'[i].sig = "ratio")
                          => \E j \in DOMAIN events : events[j] = events'[i]]_vars

\* the engine processed a block numbered 2 or higher and then ended (at a
\* sentinel or a stop) with a block enqueued behind that is never processed
C30_Witness ==
    \E t \in DOMAIN threads :
        /\ threads[t].ended \in {"eof", "stop"}
        /\ threads[t].current_rms >= 2
        /\ queues[threads[t].q] # <<>>
        /\ Head(queues[threads[t].q]).k = "frame"

\* C27: controller commands issued before the controller is ready are
\* buffered and nothing is executed; once the player is ready the calls made
\* on the controller are exactly the commands issued, each once and in the
\* order issued (the buffered ones before every later one), and the buffer
\* is empty.
C27_BufferedThenReplayedInOrder ==
    LET cmds == [i \in DOMAIN issued |-> issued[i].cmd]
    IN  /\ ~instance_controller => executed = <<>> /\ command_queue = cmds
        /\ instance_controller => executed = cmds /\ command_queue = <<>>

\* two commands were buffered, the first of them failing in the replay, and
\* a third was issued after the player became ready
C27_Witness ==
    /\ instance_controller
    /\ Len(issued) = 3
    /\ issued[1].buffered /\ issued[1].cmd.raises
    /\ issued[2].buffered /\ issued[2].cmd # issued[1].cmd
    /\ ~issued[3].buffered
    /\ Len(executed) = 3

\* the last call was get_bound_map
Looked == last.call = "get_bound_map"

\* the cache file of the model held a JSON document before the call
Parseable == last.found.text = "json"

\* a mapping from friendly names to entries
IsTable(value) == value.py = "table"

\* C21 as stated: whenever a parseable cache entry exists for the model,
\* get_bound_map returns the cached table and acquires, decompiles,
\* resolves, deletes and writes nothing.
C21_CacheHitReturnsCached ==
    (Looked /\ Parseable)
      => last.outcome = Load(last.found.doc) /\ last.did = {}

\* C21, amended: when the model file exists and a parseable cache entry
\* exists, get_bound_map returns what the entry loads to and acquires,
\* decompiles, resolves, deletes and writes nothing, and no manifest or
\* cache file changes; when the model file does not exist it returns the
\* built-in table without looking at the cache.
C21_CacheHitOfExistingModel ==
    [][/\ (Looked /\ Parseable /\ last.exists)'
            => /\ last'.outcome = Load(last'.found.doc)
               /\ last'.did = {}
               /\ cache_files' = cache_files
               /\ json_files' = json_files
       /\ (Looked /\ ~last.exists)'
            => /\ last'.outcome = PyTable(get_default_map)
               /\ last'.did = {}
               /\ cache_files' = cache_files
               /\ json_files' = json_files]_vars

\* a cache hit with a manifest file lying next to the model: the cached
\* binding is returned and becomes the widget's table, the manifest stays
C21_Witness ==
    /\ Looked /\ Parseable /\ last.exists
    /\ IsTable(last.outcome)
    /\ last.outcome.v.mouth_talk.name = Str(FaceTalk)
    /\ json_files[last.name] # NoFile
    /\ variable_map = last.outcome

\* C22: when the cache file exists but is no valid JSON (and the model and
\* a resolvable manifest are there), get_bound_map does not raise, returns
\* the table resolved from the manifest, and the cache file then holds
\* that table serialized.
C22_CorruptCacheIsAMiss ==
    (/\ Looked /\ last.exists
     /\ last.found.text \in {"invalid", "undecodable"}
     /\ last.manifest = ManifestFile(Decompiled))
      => /\ IsTable(last.outcome)
         /\ last.outcome.v.mouth_talk.name = Str(FaceTalk)
         /\ cache_files[last.key] = Text(Dump(last.outcome))

\* C23: every value get_bound_map returns is a table (a mapping from
\* friendly names to entries); a cache entry of another structure is never
\* returned.
C23_ReturnsOnlyTables ==
    (Looked /\ last.outcome # RaisedValue) => IsTable(last.outcome)

\* get_bound_map hit the cache file that the call before stored a table in
LoadedAfterStore ==
    /\ Looked /\ last.exists
    /\ last.stored # NoValue
    /\ IsTable(last.stored)

\* the same friendly names with the same name, category, tags and range
\* bounds
SameContent(a, b) ==
    /\ DOMAIN a = DOMAIN b
    /\ \A f \in DOMAIN a :
          /\ a[f].present = b[f].present
          /\ a[f].name = b[f].name
          /\ a[f].category = b[f].category
          /\ a[f].special_usage = b[f].special_usage
          /\ a[f].range.items = b[f].range.items

RangesAreLists(a) == \A f \in DOMAIN a : a[f].present => a[f].range.py = "list"

C25_StoreKeyIsLookupKey ==
    current_model_filename # NoModel
      => StoreKey(current_model_filename) = LookupKey(current_model_filename)

\* C26: when the model file does not exist, or no manifest can be obtained
\* (no manifest file, and the decompiler is missing or fails) and the cache
\* holds no parseable entry to use instead, get_bound_map returns the
\* built-in table and raises nothing.
C26_DefaultWhenNothingObtainable ==
    (/\ Looked /\ ~Parseable
     /\ ~last.exists \/ last.manifest = NoFile)
      => last.outcome = PyTable(get_default_map)

\* C31: in a table the resolver returns, an entry whose friendly name is in
\* the built-in table differs from the built-in entry in its raw name at
\* most (range, category and tags are the built-in ones); an entry whose
\* friendly name is not in the built-in table has range (-1, 1), the
\* auto-matched category and no tags.
C31_OnlyRawNameFilledIn ==
    \A i \in Tables_Returned :
        \A f \in DOMAIN VARIABLE_PATTERNS :
            LET e == resolved[i].map[f]
                d == get_default_map[f]
            IN  /\ d.present
                  => /\ e.range = d.range
                     /\ e.category = d.category
                     /\ e.special_usage = d.special_usage
                /\ (~d.present /\ e.present)
                  => /\ e.range = Tuple(<<-Scale, Scale>>)
                     /\ e.category = "auto"
                     /\ e.special_usage = {}

\* a table in which mouth_talk of the built-in table got a raw name and
\* part_a_fade was added
C31_Witness ==
    \E i \in Tables_Returned :
        /\ resolved[i].map["mouth_talk"].name # NullName
        /\ resolved[i].map["mouth_talk"].special_usage = {"MOUTH_OPEN"}
        /\ resolved[i].map["part_a_fade"].present

\* C40: the command that dismisses the splash screen is sent only once the
\* plugin flow has completed and the player has reported ready, whichever
\* came first, and it is sent at most once: the step that sends it is the
\* first in which both flags are set.
C40_SplashDismissedOnce ==
    /\ splash_dismissals <= 1
    /\ splash_dismissals = 1 <=> (plugins_are_ready /\ player_is_ready)
    /\ plugins_are_ready => plugin_flow = "done"
    /\ player_is_ready <=> player_ready > 0

\* the splash screen was dismissed, and the player reported ready again
C40_Witness ==
    /\ splash_dismissals = 1
    /\ player_ready = MaxReady
    /\ Len(executed) > 0

\* C32: load_model replaces the table as a whole: after load_model(B), and
\* after the edits the binding panel delivers later, the table holds no
\* entry that originated from the table of the model loaded before: an
\* entry an edit has put there is of a row made for the loaded model.
C32_NoEntryOfPreviousModel ==
    \A k \in DOMAIN edits :
        (/\ variable_map.py = "table"
         /\ edits[k].friendly_name \in DOMAIN variable_map.v
         /\ variable_map.v[edits[k].friendly_name] = edits[k].param_data)
            => edits[k].of = current_model_filename

\* C39: an edit to one raw variable leaves the table entries that hold the
\* edits made to other raw variables as they are, also when the variables
\* are unmapped.
C39_EditsOfOtherVariablesKept ==
    [][\A k \in DOMAIN edits :
          LET e == edits[k]
          IN  (/\ Len(edits') = Len(edits) + 1
               /\ edits'[Len(edits')].param_data.name # e.param_data.name
               /\ variable_map.py = "table"
               /\ e.friendly_name \in DOMAIN variable_map.v
               /\ variable_map.v[e.friendly_name] = e.param_data)
                => variable_map'.v[e.friendly_name] = e.param_data]_vars

\* C33: a sentinel stop() has pushed is taken from the queue only by the
\* engine stop() was called on: a session started later on the same queue
\* is not ended by the sentinel of an earlier session.
C33_SentinelOnlyEndsItsSession ==
    [][\A t \in DOMAIN threads :
          (Takes(t, {"none"}) /\ Head(queues[threads[t].q]).v > 0)
            => Head(queues[threads[t].q]).v = t]_vars

\* C34: while the engine _lip_sync_thread refers to is running, the
\* reference is not cleared: the finished handler of an earlier session
\* leaves the reference to a later session in place, so that stop_lip_sync
\* reaches the running engine.
C34_ReferenceToRunningEngineKept ==
    [][\A t \in DOMAIN threads :
          (lip_sync_thread = t /\ IsRunning(t) /\ threads'[t].pc # "finished")
            => lip_sync_thread' # 0]_vars

\* C35: the lip-sync path never issues set_variable with the name None:
\* with a MOUTH_OPEN entry that has no raw name (the built-in table),
\* neither the per-frame update nor the closing reset sends a command.
C35_NoCommandWithoutName ==
    lastCmd.kind # "none" => lastCmd.name # NullName

C37_OnlyParsedManifestCached ==
    (last.call = "get_bound_map" /\ "write" \in last.did)
        => /\ last.manifest.text = "manifest"
           /\ last.manifest.doc.readable

\* C38: get_bound_map deletes no manifest file it did not create: a
\* <model>.json that was there before the call is there after it.
C38_ForeignManifestKept ==
    (/\ last.call = "get_bound_map"
     /\ "acquire" \in last.did
     /\ "decompile" \notin last.did)
        => json_files[last.name] = last.manifest

====
